---- MODULE Spec2Model ----
(***************************************************************************)
(* A model of owid.walden: the Dataset record of catalog.py, its derived   *)
(* paths and lifecycle operations, and the transfer helpers of files.py,   *)
(* over a small local cache, index tree, temp directory and remote store.  *)
(***************************************************************************)
EXTENDS Integers, Sequences, FiniteSets, TLC

VARIABLES
    ds,         \* the Dataset record the caller currently holds
    cache,      \* files under CACHE_DIR: path -> bytes
    cacheDirs,  \* directories that exist under (and including) CACHE_DIR
    index,      \* files under INDEX_DIR: path -> document
    indexDirs,  \* directories that exist under (and including) INDEX_DIR
    tmp,        \* files in the system temp directory: name -> bytes
    nextTmp,    \* number of temp files created so far
    remote,     \* the object store behind owid_cache: key -> object
    sameFs,     \* whether the temp directory and CACHE_DIR share a filesystem
    pc,         \* position of the running download ("idle" when none runs)
    dl,         \* frame of the running download
    pre,        \* the cache as the last download found it
    ops,        \* number of operations called so far
    life,       \* the record ds as it was created, and whether an upload of it returned
    result      \* the last operation: its outcome and the collaborator calls it made

vars == <<ds, cache, cacheDirs, index, indexDirs, tmp, nextTmp, remote, sameFs,
          pc, dl, pre, ops, life, result>>

\* ------------------------------------------------------------------ bounds

MaxOps == 3         \* operations called in one behaviour
MaxTmp == 2         \* downloads started in one behaviour
DownloadChunk == 1  \* bytes per iter_content chunk (2**14 in the source)
ChecksumChunk == 2  \* bytes per read of checksum (2**20 in the source)
CopyChunk == 1      \* bytes per write of shutil's copy

\* ------------------------------------------------------ values and strings

None == <<>>
Some(v) == <<v>>

\* Python truthiness of Optional[int] and Optional[str].
TruthyInt(o) == o # None /\ o[1] # 0
TruthyStr(o) == o # None /\ o[1] # ""

Digit(n) ==
    CASE n = 0 -> "0" [] n = 1 -> "1" [] n = 2 -> "2" [] n = 3 -> "3"
      [] n = 4 -> "4" [] n = 5 -> "5" [] n = 6 -> "6" [] n = 7 -> "7"
      [] n = 8 -> "8" [] n = 9 -> "9" [] n = 10 -> "a" [] n = 11 -> "b"
      [] n = 12 -> "c" [] n = 13 -> "d" [] n = 14 -> "e" [] n = 15 -> "f"

RECURSIVE Numeral(_, _)
Numeral(n, base) ==
    IF n < base THEN Digit(n)
    ELSE Numeral(n \div base, base) \o Digit(n % base)

\* str(int)
str_int(n) == IF n < 0 THEN "-" \o Numeral(0 - n, 10) ELSE Numeral(n, 10)

RECURSIVE Pad(_, _, _)
Pad(n, width, base) ==
    IF width = 1 THEN Numeral(n, base)
    ELSE IF n < base THEN "0" \o Pad(n, width - 1, base)
    ELSE Pad(n \div base, width - 1, base) \o Digit(n % base)

\* str(datetime.date): ISO format, zero padded
str_date(d) == Pad(d.year, 4, 10) \o "-" \o Pad(d.month, 2, 10) \o "-" \o Pad(d.day, 2, 10)

\* os.path.join / os.path.dirname over paths kept as sequences of segments
join(base, rel) == base \o rel
dirname(p) == SubSeq(p, 1, Len(p) - 1)
Ancestors(p) == {SubSeq(p, 1, n) : n \in 1..Len(p)}

\* --------------------------------------------------------------- hashlib.md5

RECURSIVE md5_update(_, _)
md5_update(h, chunk) ==
    IF chunk = <<>> THEN h
    ELSE md5_update(h * 3 + Head(chunk), Tail(chunk))

md5_new == 0
hexdigest(h) == Pad(h, 4, 16)

\* f.read(chunk_size) at offset pos
read(bytes, pos, size) ==
    SubSeq(bytes, pos + 1, IF pos + size > Len(bytes) THEN Len(bytes) ELSE pos + size)

RECURSIVE checksum_from(_, _, _)
checksum_from(bytes, pos, h) ==
    IF read(bytes, pos, ChecksumChunk) = <<>> THEN hexdigest(h)
    ELSE checksum_from(bytes, pos + ChecksumChunk,
                       md5_update(h, read(bytes, pos, ChecksumChunk)))

checksum(bytes) == checksum_from(bytes, 0, md5_new)

\* ------------------------------------------------------------ the environment

CACHE_DIR == <<"~/.owid/walden">>
INDEX_DIR == <<"index">>

SrcUrl == "http://src/data.csv"
OwidUrl == "http://owid/data.csv"
Urls == {SrcUrl, OwidUrl}

\* The bytes each URL serves.
Served(url) == IF url = SrcUrl THEN <<1, 2>> ELSE <<2, 1>>

\* Files the caller already has on disk, outside the cache.
HaveFile == "/data/have.csv"
MissingFile == "/data/missing.csv"
FileNames == {HaveFile, MissingFile}
LocalFiles == (HaveFile :> <<1, 1>>)

DateObj == [type |-> "date", year |-> 2019, month |-> 3, day |-> 7]
DateStr == [type |-> "str", s |-> "2019-03-07"]

\* What Dataset.from_dict is given: the fields of the dataclass.
Records(years, dates, mirrors) ==
    [namespace : {"a"}, short_name : {"x"},
     name : {"n"}, description : {"d"}, source_name : {"s"},
     url : {"http://src/"}, date_accessed : {"2021-01-01"},
     source_data_url : {SrcUrl}, file_extension : {"csv"},
     md5 : {None},
     publication_year : years,
     publication_date : dates,
     owid_data_url : mirrors]

\* A digest recorded for a file that the source has replaced since.
StaleMd5 == checksum(<<2, 2>>)

Metadatas ==
    Records({None, Some(0), Some(2020)}, {None, Some(DateObj), Some(DateStr)}, {None})
    \cup Records({Some(2020)}, {None}, {Some(""), Some(OwidUrl)})
    \cup {[m EXCEPT !.md5 = Some(StaleMd5)] : m \in Records({Some(2020)}, {None}, {None})}

\* What download_and_create and copy_and_create are given.
NewMetadatas ==
    Records({None, Some(2020)}, {None}, {None}) \cup Records({None}, {Some(DateStr)}, {None})

\* ------------------------------------------------- Dataset: derived properties

ValueError == "ValueError: no versioning field found"

str_pubdate(v) == IF v.type = "date" THEN str_date(v) ELSE v.s
TruthyPubdate(o) == o # None /\ (o[1].type = "str" => o[1].s # "")

\* version that formats the date whatever it is: str(None) is "None".
version_NoRaise(d) ==
    IF TruthyInt(d.publication_year) THEN str_int(d.publication_year[1])
    ELSE IF d.publication_date # None THEN str_pubdate(d.publication_date[1])
    ELSE "None"

version(d) ==
    IF TruthyInt(d.publication_year) THEN str_int(d.publication_year[1])
    ELSE IF TruthyPubdate(d.publication_date) THEN str_pubdate(d.publication_date[1])
    ELSE ValueError

\* Whether the derived paths of d can be computed at all.
derivable(d) == version(d) # ValueError

relative_base(d) == <<d.namespace, version(d), d.short_name>>

\* f"{path}.{suffix}"
dotted(p, suffix) == [p EXCEPT ![Len(p)] = @ \o "." \o suffix]

index_path(d) == join(INDEX_DIR, dotted(relative_base(d), "json"))
local_path(d) == join(CACHE_DIR, dotted(relative_base(d), d.file_extension))
dest_path(d) == dotted(relative_base(d), d.file_extension)

\* Where a direct call of download is asked to put the file.
DownloadTargets == {join(CACHE_DIR, <<"a", "2020", "x.csv">>)}

\* ------------------------------------------------------------- serialisation

Fields == {"namespace", "short_name", "name", "description", "source_name", "url",
           "date_accessed", "source_data_url", "file_extension", "md5",
           "publication_year", "publication_date", "owid_data_url"}

\* json.dumps(self.to_dict()): every field is written, None as null. A
\* datetime.date object has no JSON form and json.dumps raises TypeError.
serializable(d) == d.publication_date = None \/ d.publication_date[1].type # "date"

json_opt(o, kind) == IF o = None THEN <<"null">> ELSE <<kind, o[1]>>

json_dumps(d) ==
    [f \in Fields |->
        CASE f \in {"md5", "owid_data_url"} -> json_opt(d[f], "string")
          [] f = "publication_year" -> json_opt(d[f], "number")
          [] f = "publication_date" ->
                IF d[f] = None THEN <<"null">> ELSE <<"string", d[f][1].s>>
          [] OTHER -> <<"string", d[f]>>]

\* A file of the index: <<>> when empty, <<doc>> when it holds one document.
EmptyFile == <<>>
Written(doc) == <<doc>>

\* json.load(istream): an empty file is not a JSON document and raises
\* JSONDecodeError; otherwise the object becomes a dict whose values are
\* None, str or int.
parses(file) == file # EmptyFile

json_load(file) ==
    [f \in DOMAIN file[1] |->
        IF file[1][f][1] = "null" THEN None
        ELSE IF file[1][f][1] = "number" THEN <<"int", file[1][f][2]>>
        ELSE <<"str", file[1][f][2]>>]

\* Dataset.from_dict(kvs) as dataclass_json generates it: the value of an
\* Optional[dt.date] field is kept as it is given, so a string stays a string.
from_dict(kvs) ==
    [f \in Fields |->
        CASE f \in {"md5", "owid_data_url", "publication_year"} ->
                IF kvs[f] = None THEN None ELSE Some(kvs[f][2])
          [] f = "publication_date" ->
                IF kvs[f] = None THEN None
                ELSE Some([type |-> "str", s |-> kvs[f][2]])
          [] OTHER -> kvs[f][2]]

\* ------------------------------------------------------------- bookkeeping

Idle == pc = "idle" /\ ops < MaxOps

\* The life of a record that from_dict (or a constructor built on it) has
\* just returned.
Created(d) == [born |-> d, uploaded |-> FALSE]
NoDl == [caller |-> "none"]

\* What an operation leaves to observe: the record and arguments it was called
\* with, how it ended, what it returned, and the calls it made to files.download,
\* to requests.get and to owid_cache.upload.
Outcome(op, self, args, status, value) ==
    [op |-> op, self |-> self, args |-> args, status |-> status, value |-> value,
     downloads |-> <<>>, gets |-> <<>>, puts |-> <<>>]

exists(files, p) == p \in DOMAIN files
Without(files, p) == [q \in DOMAIN files \ {p} |-> files[q]]
Put(files, p, bytes) == [q \in DOMAIN files \cup {p} |-> IF q = p THEN bytes ELSE files[q]]

\* if not path.isdir(parent_dir): makedirs(parent_dir)
makedirs(dirs, parent_dir) == dirs \cup Ancestors(parent_dir)

TmpName(n) == "/tmp/tmp" \o str_int(n)

\* The repository's index folder at the start: the documents of two datasets
\* saved earlier, a file that is not a document, and the directories above
\* them.
Stored(namespace, year, short_name) ==
    [(CHOOSE m \in Records({Some(year)}, {None}, {None}) : TRUE) EXCEPT
        !.namespace = namespace, !.short_name = short_name]

Readme == join(INDEX_DIR, <<"README.md">>)

InitIndex ==
    (index_path(Stored("a", 2020, "w")) :> Written(json_dumps(Stored("a", 2020, "w"))))
    @@ (index_path(Stored("b", 2019, "z")) :> Written(json_dumps(Stored("b", 2019, "z"))))
    @@ (Readme :> EmptyFile)

InitIndexDirs == UNION {Ancestors(dirname(p)) : p \in DOMAIN InitIndex}

Init ==
    /\ ds \in Metadatas
    /\ cache = <<>>
    /\ cacheDirs = {}
    /\ index = InitIndex
    /\ indexDirs = InitIndexDirs
    /\ tmp = <<>>
    /\ nextTmp = 0
    /\ remote = <<>>
    /\ sameFs \in BOOLEAN
    /\ pc = "idle"
    /\ dl = NoDl
    /\ pre = <<>>
    /\ ops = 0
    /\ life = Created(ds)
    /\ result = Outcome("from_dict", ds, <<>>, "ok", None)

\* ---------------------------------------------------------- files.download

\* The call download(url, filename, expected_md5) made by `caller` for record
\* `self`: NamedTemporaryFile(delete=False) creates the temp file first.
StartDownload(caller, self, url, filename, expected_md5, dirs) ==
    /\ nextTmp < MaxTmp
    /\ ops' = ops + 1
    /\ nextTmp' = nextTmp + 1
    /\ tmp' = Put(tmp, TmpName(nextTmp + 1), <<>>)
    /\ cacheDirs' = dirs
    /\ pc' = "get"
    /\ dl' = [caller |-> caller, self |-> self, url |-> url, filename |-> filename,
              expected_md5 |-> expected_md5, temp |-> TmpName(nextTmp + 1),
              md5 |-> md5_new, pos |-> 0]
    /\ pre' = cache
    /\ result' = [Outcome(caller, self, <<>>, "running", None) EXCEPT
                    !.downloads = <<[url |-> url, filename |-> filename,
                                     expected_md5 |-> expected_md5]>>]
    /\ UNCHANGED <<ds, life, cache, index, indexDirs, remote, sameFs>>

\* An exception leaves the with block: the temp file is closed, not removed.
Raise(status) ==
    /\ pc' = "idle"
    /\ dl' = NoDl
    /\ result' = [result EXCEPT !.status = status]
    /\ UNCHANGED <<ds, life, cache, cacheDirs, index, indexDirs, tmp, nextTmp, remote,
                   sameFs, pre, ops>>

\* download returns to its caller: ensure_downloaded returns the filename, and
\* download_and_create then sets the md5 of the new record from the file.
Return(files) ==
    /\ pc' = "idle"
    /\ dl' = NoDl
    /\ cache' = files
    /\ ds' = IF dl.caller = "download_and_create"
             THEN [dl.self EXCEPT !.md5 = Some(checksum(files[dl.filename]))]
             ELSE ds
    /\ life' = IF dl.caller = "download_and_create" THEN Created(ds') ELSE life
    /\ result' = [result EXCEPT !.status = "ok",
                    !.value = IF dl.caller = "download" THEN None ELSE Some(dl.filename)]
    /\ UNCHANGED <<cacheDirs, index, indexDirs, nextTmp, remote, sameFs, pre, ops>>

\* requests.get(url, stream=True) and r.raise_for_status()
DlGet ==
    /\ pc = "get"
    /\ \E status \in {"ok", "ConnectionError", "HTTPError"} :
         IF status = "ok"
         THEN /\ pc' = "stream"
              /\ result' = [result EXCEPT !.gets = Append(@, dl.url)]
              /\ UNCHANGED <<ds, life, cache, cacheDirs, index, indexDirs, tmp, nextTmp,
                             remote, sameFs, dl, pre, ops>>
         ELSE /\ pc' = "idle"
              /\ dl' = NoDl
              /\ result' = [result EXCEPT !.gets = Append(@, dl.url), !.status = status]
              /\ UNCHANGED <<ds, life, cache, cacheDirs, index, indexDirs, tmp, nextTmp,
                             remote, sameFs, pre, ops>>

\* _stream_to_file, one chunk: file.write(chunk); md5.update(chunk)
DlChunk ==
    /\ pc = "stream"
    /\ dl.pos < Len(Served(dl.url))
    /\ LET chunk == read(Served(dl.url), dl.pos, DownloadChunk) IN
         /\ tmp' = [tmp EXCEPT ![dl.temp] = @ \o chunk]
         /\ dl' = [dl EXCEPT !.md5 = md5_update(@, chunk), !.pos = @ + Len(chunk)]
    /\ UNCHANGED <<ds, life, cache, cacheDirs, index, indexDirs, nextTmp, remote, sameFs,
                   pc, pre, ops, result>>

\* The connection drops while iter_content waits for the next chunk.
DlStreamError ==
    /\ pc = "stream"
    /\ dl.pos < Len(Served(dl.url))
    /\ Raise("ConnectionError")

\* shutil.move(temp.name, filename): os.rename when it can, else copy and unlink.
move ==
    IF sameFs
    THEN /\ tmp' = Without(tmp, dl.temp)
         /\ Return(Put(cache, dl.filename, tmp[dl.temp]))
    ELSE /\ cache' = Put(cache, dl.filename, <<>>)
         /\ pc' = "copy"
         /\ dl' = [dl EXCEPT !.pos = 0]
         /\ UNCHANGED <<ds, life, cacheDirs, index, indexDirs, tmp, nextTmp, remote,
                        sameFs, pre, ops, result>>

\* DlVerify without the comparison of the digests.
DlVerify_Unchecked ==
    /\ pc = "stream"
    /\ dl.pos = Len(Served(dl.url))
    /\ move

\* The stream is exhausted: compare the digests, then move the temp file.
DlVerify ==
    /\ pc = "stream"
    /\ dl.pos = Len(Served(dl.url))
    /\ IF TruthyStr(dl.expected_md5) /\ hexdigest(dl.md5) # dl.expected_md5[1]
       THEN Raise("ChecksumDoesNotMatch")
       ELSE move

\* shutil.move across filesystems, one buffer of the copy
MvCopy ==
    /\ pc = "copy"
    /\ dl.pos < Len(tmp[dl.temp])
    /\ LET chunk == read(tmp[dl.temp], dl.pos, CopyChunk) IN
         /\ cache' = [cache EXCEPT ![dl.filename] = @ \o chunk]
         /\ dl' = [dl EXCEPT !.pos = @ + Len(chunk)]
    /\ UNCHANGED <<ds, life, cacheDirs, index, indexDirs, tmp, nextTmp, remote, sameFs,
                   pc, pre, ops, result>>

\* shutil.move across filesystems: the copy is complete, os.unlink(src)
MvUnlink ==
    /\ pc = "copy"
    /\ dl.pos = Len(tmp[dl.temp])
    /\ tmp' = Without(tmp, dl.temp)
    /\ Return(cache)

\* The process is interrupted (KeyboardInterrupt, kill) while a download runs.
Interrupt ==
    /\ pc # "idle"
    /\ Raise("KeyboardInterrupt")

\* download(url, filename, expected_md5) called directly, with a destination
\* in a directory that exists
download ==
    /\ Idle
    /\ \A filename \in DownloadTargets : dirname(filename) \in cacheDirs
    /\ \E url \in Urls, filename \in DownloadTargets,
          expected_md5 \in {None, Some(""), Some(checksum(Served(SrcUrl)))} :
         StartDownload("download", ds, url, filename, expected_md5, cacheDirs)

\* -------------------------------------------------------- Dataset operations

\* An operation that ends in one step, changing nothing but what it names.
Done(op, self, args, status, value) ==
    /\ ops' = ops + 1
    /\ result' = Outcome(op, self, args, status, value)
    /\ UNCHANGED <<nextTmp, sameFs, pc, dl, tmp, pre>>

\* ensure_downloaded without the test for a cached file: it always downloads.
EnsureDownloaded_Always(op, self, made) ==
    IF ~derivable(self)
    THEN /\ Done(op, self, <<>>, "ValueError", None)
         /\ UNCHANGED <<ds, life, cache, cacheDirs, index, indexDirs, remote>>
    ELSE StartDownload(op, self,
                       IF TruthyStr(self.owid_data_url) THEN self.owid_data_url[1]
                       ELSE self.source_data_url,
                       local_path(self), None,
                       makedirs(cacheDirs, dirname(local_path(self))))

\* ensure_downloaded preferring the source over the mirror.
EnsureDownloaded_SourceFirst(op, self, made) ==
    IF ~derivable(self)
    THEN /\ Done(op, self, <<>>, "ValueError", None)
         /\ UNCHANGED <<ds, life, cache, cacheDirs, index, indexDirs, remote>>
    ELSE IF exists(cache, local_path(self))
    THEN /\ ds' = made
         /\ life' = IF op = "download_and_create" THEN Created(made) ELSE life
         /\ Done(op, self, <<>>, "ok", Some(local_path(self)))
         /\ UNCHANGED <<cache, cacheDirs, index, indexDirs, remote>>
    ELSE StartDownload(op, self,
                       IF self.source_data_url # "" THEN self.source_data_url
                       ELSE self.owid_data_url[1],
                       local_path(self), None,
                       makedirs(cacheDirs, dirname(local_path(self))))

\* self.ensure_downloaded(), called as operation `op` on record `self`; `made`
\* is the record the caller holds once the call has returned without a download.
EnsureDownloaded(op, self, made) ==
    IF ~derivable(self)
    THEN /\ Done(op, self, <<>>, "ValueError", None)
         /\ UNCHANGED <<ds, life, cache, cacheDirs, index, indexDirs, remote>>
    ELSE IF exists(cache, local_path(self))
    THEN /\ ds' = made
         /\ life' = IF op = "download_and_create" THEN Created(made) ELSE life
         /\ Done(op, self, <<>>, "ok", Some(local_path(self)))
         /\ UNCHANGED <<cache, cacheDirs, index, indexDirs, remote>>
    ELSE StartDownload(op, self,
                       IF TruthyStr(self.owid_data_url) THEN self.owid_data_url[1]
                       ELSE self.source_data_url,
                       local_path(self), None,
                       makedirs(cacheDirs, dirname(local_path(self))))

ensure_downloaded ==
    /\ Idle
    /\ EnsureDownloaded("ensure_downloaded", ds, ds)

\* Dataset.download_and_create(metadata)
download_and_create ==
    /\ Idle
    /\ \E metadata \in NewMetadatas :
         EnsureDownloaded("download_and_create", metadata,
             IF derivable(metadata) /\ exists(cache, local_path(metadata))
             THEN [metadata EXCEPT !.md5 = Some(checksum(cache[local_path(metadata)]))]
             ELSE metadata)

\* add_to_cache that also stores the digest of the file in the record.
AddToCache_SetsMd5(op, self, filename) ==
    IF ~derivable(self)
    THEN /\ Done(op, self, <<filename>>, "ValueError", None)
         /\ UNCHANGED <<ds, life, cache, cacheDirs, index, indexDirs, remote>>
    ELSE /\ cacheDirs' = makedirs(cacheDirs, dirname(local_path(self)))
         /\ IF exists(LocalFiles, filename)
            THEN /\ cache' = Put(cache, local_path(self), LocalFiles[filename])
                 /\ ds' = [self EXCEPT !.md5 = Some(checksum(LocalFiles[filename]))]
                 /\ life' = IF op = "copy_and_create" THEN Created(self) ELSE life
                 /\ Done(op, self, <<filename>>, "ok", None)
            ELSE /\ Done(op, self, <<filename>>, "FileNotFoundError", None)
                 /\ UNCHANGED <<ds, life, cache>>
         /\ UNCHANGED <<index, indexDirs, remote>>

\* self.add_to_cache(filename), called as operation `op` on record `self`
AddToCache(op, self, filename) ==
    IF ~derivable(self)
    THEN /\ Done(op, self, <<filename>>, "ValueError", None)
         /\ UNCHANGED <<ds, life, cache, cacheDirs, index, indexDirs, remote>>
    ELSE /\ cacheDirs' = makedirs(cacheDirs, dirname(local_path(self)))
         /\ IF exists(LocalFiles, filename)
            THEN /\ cache' = Put(cache, local_path(self), LocalFiles[filename])
                 /\ ds' = self
                 /\ life' = IF op = "copy_and_create" THEN Created(self) ELSE life
                 /\ Done(op, self, <<filename>>, "ok", None)
            ELSE /\ Done(op, self, <<filename>>, "FileNotFoundError", None)
                 /\ UNCHANGED <<ds, life, cache>>
         /\ UNCHANGED <<index, indexDirs, remote>>

add_to_cache ==
    /\ Idle
    /\ \E filename \in FileNames : AddToCache("add_to_cache", ds, filename)

\* Dataset.copy_and_create(filename, metadata)
copy_and_create ==
    /\ Idle
    /\ \E filename \in FileNames, metadata \in NewMetadatas :
         IF ~exists(LocalFiles, filename)
         THEN /\ Done("copy_and_create", metadata, <<filename>>, "FileNotFoundError", None)
              /\ UNCHANGED <<ds, life, cache, cacheDirs, index, indexDirs, remote>>
         ELSE AddToCache("copy_and_create",
                         [metadata EXCEPT !.md5 = Some(checksum(LocalFiles[filename]))],
                         filename)

\* self.save(): open(self.index_path, "w") truncates the file before
\* json.dumps runs, and fails when the parent directory does not exist. The
\* process may be interrupted between the open and the write.
save ==
    /\ Idle
    /\ IF ~derivable(ds)
       THEN /\ Done("save", ds, <<>>, "ValueError", None)
            /\ UNCHANGED index
       ELSE IF dirname(index_path(ds)) \notin indexDirs
       THEN /\ Done("save", ds, <<>>, "FileNotFoundError", None)
            /\ UNCHANGED index
       ELSE \E interrupted \in BOOLEAN :
            IF interrupted
            THEN /\ index' = Put(index, index_path(ds), EmptyFile)
                 /\ Done("save", ds, <<>>, "KeyboardInterrupt", None)
            ELSE IF ~serializable(ds)
            THEN /\ index' = Put(index, index_path(ds), EmptyFile)
                 /\ Done("save", ds, <<>>, "TypeError", None)
            ELSE /\ index' = Put(index, index_path(ds), Written(json_dumps(ds)))
                 /\ Done("save", ds, <<>>, "ok", None)
    /\ UNCHANGED <<ds, life, cache, cacheDirs, indexDirs, remote>>

\* delete that removes the cached file together with the index document.
delete_WithFile ==
    /\ Idle
    /\ IF ~derivable(ds)
       THEN /\ Done("delete", ds, <<>>, "ValueError", None)
            /\ UNCHANGED <<index, cache>>
       ELSE /\ index' = IF exists(index, index_path(ds))
                        THEN Without(index, index_path(ds)) ELSE index
            /\ cache' = IF exists(cache, local_path(ds))
                        THEN Without(cache, local_path(ds)) ELSE cache
            /\ Done("delete", ds, <<>>, "ok", None)
    /\ UNCHANGED <<ds, life, cacheDirs, indexDirs, remote>>

\* delete without the test path.exists(self.index_path): os.unlink of a
\* missing file raises FileNotFoundError.
delete_Unguarded ==
    /\ Idle
    /\ IF ~derivable(ds)
       THEN /\ Done("delete", ds, <<>>, "ValueError", None)
            /\ UNCHANGED index
       ELSE IF ~exists(index, index_path(ds))
       THEN /\ Done("delete", ds, <<>>, "FileNotFoundError", None)
            /\ UNCHANGED index
       ELSE /\ index' = Without(index, index_path(ds))
            /\ Done("delete", ds, <<>>, "ok", None)
    /\ UNCHANGED <<ds, life, cache, cacheDirs, indexDirs, remote>>

\* self.delete()
delete ==
    /\ Idle
    /\ IF ~derivable(ds)
       THEN /\ Done("delete", ds, <<>>, "ValueError", None)
            /\ UNCHANGED index
       ELSE /\ index' = IF exists(index, index_path(ds))
                        THEN Without(index, index_path(ds)) ELSE index
            /\ Done("delete", ds, <<>>, "ok", None)
    /\ UNCHANGED <<ds, life, cache, cacheDirs, indexDirs, remote>>

\* owid_cache.upload(local_path, dest_path, public): the object store either
\* fails, storing nothing, or stores the file under the key and returns its URL.
base_url == "http://walden.nyc3.digitaloceanspaces.com"
RECURSIVE key_str(_)
key_str(key) == IF key = <<>> THEN "" ELSE "/" \o Head(key) \o key_str(Tail(key))
cache_url(key) == base_url \o key_str(key)

owid_cache_upload(bytes, key, public, ok) ==
    IF ok THEN Put(remote, key, [bytes |-> bytes, public |-> public]) ELSE remote

\* upload that calls the object store before it looks for the local file.
upload_LateCheck(public) ==
    /\ Idle
    /\ IF ~derivable(ds)
       THEN /\ Done("upload", ds, <<public>>, "ValueError", None)
            /\ UNCHANGED <<ds, life, remote>>
       ELSE \E ok \in BOOLEAN :
            LET found == exists(cache, local_path(ds))
                call == [local |-> local_path(ds), key |-> dest_path(ds),
                         public |-> public,
                         returned |-> IF ok /\ found
                                      THEN Some(cache_url(dest_path(ds))) ELSE None]
            IN /\ remote' = IF found
                            THEN owid_cache_upload(cache[local_path(ds)], dest_path(ds),
                                                   public, ok)
                            ELSE remote
               /\ ds' = IF ok /\ found THEN [ds EXCEPT !.owid_data_url = call.returned]
                        ELSE ds
               /\ life' = IF ok /\ found THEN [life EXCEPT !.uploaded = TRUE] ELSE life
               /\ ops' = ops + 1
               /\ result' = [Outcome("upload", ds, <<public>>,
                                       IF ~found THEN "Exception"
                                       ELSE IF ok THEN "ok" ELSE "UploadError", None)
                               EXCEPT !.puts = <<call>>]
               /\ UNCHANGED <<nextTmp, sameFs, pc, dl, tmp, pre>>
    /\ UNCHANGED <<cache, cacheDirs, index, indexDirs>>

\* upload that rewrites owid_data_url only when the file is public.
upload_IfPublic(public) ==
    /\ Idle
    /\ IF ~derivable(ds)
       THEN /\ Done("upload", ds, <<public>>, "ValueError", None)
            /\ UNCHANGED <<ds, life, remote>>
       ELSE IF ~exists(cache, local_path(ds))
       THEN /\ Done("upload", ds, <<public>>, "Exception", None)
            /\ UNCHANGED <<ds, life, remote>>
       ELSE \E ok \in BOOLEAN :
            LET call == [local |-> local_path(ds), key |-> dest_path(ds),
                         public |-> public,
                         returned |-> IF ok THEN Some(cache_url(dest_path(ds))) ELSE None]
            IN /\ remote' = owid_cache_upload(cache[local_path(ds)], dest_path(ds), public, ok)
               /\ ds' = IF ok /\ public THEN [ds EXCEPT !.owid_data_url = call.returned]
                        ELSE ds
               /\ life' = IF ok THEN [life EXCEPT !.uploaded = TRUE] ELSE life
               /\ ops' = ops + 1
               /\ result' = [Outcome("upload", ds, <<public>>,
                                       IF ok THEN "ok" ELSE "UploadError", None)
                               EXCEPT !.puts = <<call>>]
               /\ UNCHANGED <<nextTmp, sameFs, pc, dl, tmp, pre>>
    /\ UNCHANGED <<cache, cacheDirs, index, indexDirs>>

\* self.upload(public)
upload(public) ==
    /\ Idle
    /\ IF ~derivable(ds)
       THEN /\ Done("upload", ds, <<public>>, "ValueError", None)
            /\ UNCHANGED <<ds, life, remote>>
       ELSE IF ~exists(cache, local_path(ds))
       THEN /\ Done("upload", ds, <<public>>, "Exception", None)
            /\ UNCHANGED <<ds, life, remote>>
       ELSE \E ok \in BOOLEAN :
            LET call == [local |-> local_path(ds), key |-> dest_path(ds),
                         public |-> public,
                         returned |-> IF ok THEN Some(cache_url(dest_path(ds))) ELSE None]
            IN /\ remote' = owid_cache_upload(cache[local_path(ds)], dest_path(ds), public, ok)
               /\ ds' = IF ok THEN [ds EXCEPT !.owid_data_url = call.returned] ELSE ds
               /\ life' = IF ok THEN [life EXCEPT !.uploaded = TRUE] ELSE life
               /\ ops' = ops + 1
               /\ result' = [Outcome("upload", ds, <<public>>,
                                       IF ok THEN "ok" ELSE "UploadError", None)
                               EXCEPT !.puts = <<call>>]
               /\ UNCHANGED <<nextTmp, sameFs, pc, dl, tmp, pre>>
    /\ UNCHANGED <<cache, cacheDirs, index, indexDirs>>

Upload == \E public \in BOOLEAN : upload(public)

\* Dataset.from_dict(json.load(istream)) on the document at the record's
\* index path: the caller now holds the record the document describes.
FromDict ==
    /\ Idle
    /\ derivable(ds)
    /\ exists(index, index_path(ds))
    /\ parses(index[index_path(ds)])
    /\ ds' = from_dict(json_load(index[index_path(ds)]))
    /\ life' = Created(ds')
    /\ Done("from_dict", ds', <<index_path(ds)>>, "ok", None)
    /\ UNCHANGED <<cache, cacheDirs, index, indexDirs, remote>>

\* ------------------------------------------------------- scanning the index

\* The characters of the names that occur in index paths, as code points:
\* sorted() compares the path strings character by character.
codepoints(s) ==
    CASE s = "index" -> <<105, 110, 100, 101, 120>>
      [] s = "a" -> <<97>>
      [] s = "b" -> <<98>>
      [] s = "2019" -> <<50, 48, 49, 57>>
      [] s = "2020" -> <<50, 48, 50, 48>>
      [] s = "2019-03-07" -> <<50, 48, 49, 57, 45, 48, 51, 45, 48, 55>>
      [] s = "w.json" -> <<119, 46, 106, 115, 111, 110>>
      [] s = "x.json" -> <<120, 46, 106, 115, 111, 110>>
      [] s = "z.json" -> <<122, 46, 106, 115, 111, 110>>
      [] s = "README.md" -> <<82, 69, 65, 68, 77, 69, 46, 109, 100>>

\* The string path.join(dirname, filename) of a path: its names with "/"
\* (code point 47) between them.
RECURSIVE path_str(_)
path_str(p) ==
    IF Len(p) = 1 THEN codepoints(p[1])
    ELSE codepoints(Head(p)) \o <<47>> \o path_str(Tail(p))

\* a < b on Python strings
RECURSIVE str_lt(_, _)
str_lt(a, b) ==
    IF b = <<>> THEN FALSE
    ELSE IF a = <<>> THEN TRUE
    ELSE IF a[1] # b[1] THEN a[1] < b[1]
    ELSE str_lt(Tail(a), Tail(b))

path_lt(p, q) == str_lt(path_str(p), path_str(q))

RECURSIVE insert(_, _)
insert(p, s) ==
    IF s = <<>> THEN <<p>>
    ELSE IF path_lt(p, Head(s)) THEN <<p>> \o s
    ELSE <<Head(s)>> \o insert(p, Tail(s))

RECURSIVE sorted(_)

\* sorted that leaves the paths in the order the walk produced them.
sorted_AsWalked(s) == s

\* sorted(paths)
sorted(s) ==
    IF s = <<>> THEN <<>>
    ELSE insert(s[Len(s)], sorted(SubSeq(s, 1, Len(s) - 1)))

\* The orders in which a directory listing can come.
Listings(S) ==
    {s \in [1..Cardinality(S) -> S] : \A i, j \in 1..Cardinality(S) : i # j => s[i] # s[j]}

\* os.walk(top), top-down: the files of top in listing order, then the walk
\* of each subdirectory, the subdirectories in listing order. Every order
\* the filesystem may list the entries in is a possible walk.
RECURSIVE walk(_)
RECURSIVE walk_each(_)
walk_each(dirnames) ==
    IF dirnames = <<>> THEN {<<>>}
    ELSE {first \o rest : first \in walk(Head(dirnames)), rest \in walk_each(Tail(dirnames))}

walk(top) ==
    LET filenames == {p \in DOMAIN index : dirname(p) = top}
        dirnames == {d \in indexDirs : dirname(d) = top}
    IN {here \o below :
            here \in Listings(filenames),
            below \in UNION {walk_each(listed) : listed \in Listings(dirnames)}}

\* filename.endswith(suffix), over the names the model's files have
Stems == {"w", "x", "z", "README", "README.md"}
endswith(s, suffix) == \E stem \in Stems : s = stem \o suffix

\* iter_json, given the order the walk produces the files in
iter_json(walked) == SelectSeq(walked, LAMBDA p : endswith(p[Len(p)], ".json"))

\* The loop of iter_docs over the sorted paths, run until it ends: the first
\* n documents are opened, parsed and yielded, and the next one, if there is
\* one, fails to parse.
Scanned(walked, filenames, n) ==
    LET yielded == [i \in 1..n |-> <<filenames[i], json_load(index[filenames[i]])>>]
    IN IF n = Len(filenames)
       THEN Done("iter_docs", ds, <<walked>>, "ok", <<yielded, None>>)
       ELSE Done("iter_docs", ds, <<walked>>, "RecordWithInvalidJSON",
                 <<yielded, Some(filenames[n + 1])>>)

\* The number of documents at the head of the sorted paths that parse.
RECURSIVE parsed(_)
parsed(filenames) ==
    IF filenames = <<>> \/ ~parses(index[Head(filenames)]) THEN 0
    ELSE 1 + parsed(Tail(filenames))

\* iter_docs that parses every document before it yields the first pair.
iter_docs_Eager(folder) ==
    /\ Idle
    /\ \E walked \in walk(folder) :
         \E filenames \in {sorted(iter_json(walked))} :
            IF parsed(filenames) = Len(filenames)
            THEN Scanned(walked, filenames, Len(filenames))
            ELSE Done("iter_docs", ds, <<walked>>, "RecordWithInvalidJSON",
                      <<<<>>, Some(filenames[parsed(filenames) + 1])>>)
    /\ UNCHANGED <<ds, life, cache, cacheDirs, index, indexDirs, remote>>

\* iter_docs(folder), consumed until it ends: the pairs it yields, in order,
\* and the path RecordWithInvalidJSON is raised with, if it is raised. The
\* documents are opened one by one, each after the pair before it was
\* yielded.
iter_docs(folder) ==
    /\ Idle
    /\ \E walked \in walk(folder) :
         \E filenames \in {sorted(iter_json(walked))} :
            Scanned(walked, filenames, parsed(filenames))
    /\ UNCHANGED <<ds, life, cache, cacheDirs, index, indexDirs, remote>>

\* catalog.iter_docs()
IterDocs == iter_docs(INDEX_DIR)

Next ==
    \/ download
    \/ DlGet
    \/ DlChunk
    \/ DlStreamError
    \/ DlVerify
    \/ MvCopy
    \/ MvUnlink
    \/ Interrupt
    \/ ensure_downloaded
    \/ download_and_create
    \/ add_to_cache
    \/ copy_and_create
    \/ save
    \/ delete
    \/ Upload
    \/ FromDict
    \/ IterDocs

Spec == Init /\ [][Next]_vars

\* ------------------------------------------------------------------ claims

\* The call of files.download the last operation made, if it made one.
Called == result.downloads # <<>>
Call == result.downloads[1]
Finished == pc = "idle" /\ result.status # "running"

\* The transfer itself went through: the response was 2xx and every byte of
\* the body was streamed (the call was not cut short by the transport).
Transferred ==
    /\ Finished
    /\ result.status \notin {"ConnectionError", "HTTPError", "KeyboardInterrupt"}

\* The file at path p is in `now` what it was in `before`.
SameAt(p, now, before) ==
    /\ exists(now, p) <=> exists(before, p)
    /\ exists(now, p) => now[p] = before[p]

\* C1 as stated: a direct call of download whose expected_digest is supplied
\* (not None) and differs from the digest of the bytes the URL served fails
\* with ChecksumDoesNotMatch and leaves the destination as it was.
C1_AsStated ==
    (/\ result.op = "download"
     /\ Transferred
     /\ Call.expected_md5 # None
     /\ Call.expected_md5[1] # checksum(Served(Call.url)))
    => /\ result.status = "ChecksumDoesNotMatch"
       /\ SameAt(Call.filename, cache, pre)

\* C1 amended: the same, for an expected_digest that is a non-empty string;
\* the code takes an empty expected_digest as none given and makes no check.
C1_ChecksumEnforced ==
    (/\ result.op = "download"
     /\ Transferred
     /\ Call.expected_md5 # None
     /\ Call.expected_md5[1] # ""
     /\ Call.expected_md5[1] # checksum(Served(Call.url)))
    => /\ result.status = "ChecksumDoesNotMatch"
       /\ SameAt(Call.filename, cache, pre)

\* C1 witness: a download with a wrong digest has failed and no file is at the
\* destination.
C1_Witness ==
    /\ result.op = "download"
    /\ result.status = "ChecksumDoesNotMatch"
    /\ Call.expected_md5 = Some(checksum(Served(SrcUrl)))
    /\ Call.url = OwidUrl
    /\ ~exists(cache, Call.filename)

\* The whole files there are: the bodies served and the caller's own files.
Whole == {Served(url) : url \in Urls} \cup {LocalFiles[f] : f \in DOMAIN LocalFiles}

\* C2: at every point of a download, and after it however it ended, the file at
\* its destination is absent or unchanged, or holds the whole body; and a path
\* ensure_downloaded returns holds a whole file, never a part of one.
C2_NeverPartial ==
    /\ Called =>
         \/ SameAt(Call.filename, cache, pre)
         \/ exists(cache, Call.filename) /\ cache[Call.filename] = Served(Call.url)
    /\ (result.op = "ensure_downloaded" /\ Finished /\ result.status = "ok")
         => cache[result.value[1]] \in Whole

\* The step is a call of operation `op`: operations are called when no
\* download runs, and every call is counted.
CallOf(op) == pc = "idle" /\ ops' = ops + 1 /\ result'.op = op

\* C3: while a file is at the record's local cache path, a call of
\* ensure_downloaded makes no download call and no request, leaves the cache
\* and the record as they are, and returns the local cache path; so the next
\* call finds the same file and does the same.
C3_Idempotent ==
    [][(/\ CallOf("ensure_downloaded")
        /\ derivable(ds)
        /\ exists(cache, join(CACHE_DIR, dotted(relative_base(ds), ds.file_extension))))
       => /\ pc' = "idle"
          /\ result'.status = "ok"
          /\ result'.value = Some(join(CACHE_DIR, dotted(relative_base(ds), ds.file_extension)))
          /\ result'.downloads = <<>>
          /\ result'.gets = <<>>
          /\ cache' = cache
          /\ tmp' = tmp
          /\ ds' = ds]_vars

\* C3 witness: the third operation was an ensure_downloaded that found the
\* file cached and returned its path without a download.
C3_Witness ==
    /\ result.op = "ensure_downloaded"
    /\ result.status = "ok"
    /\ result.downloads = <<>>
    /\ ops = 3
    /\ derivable(ds)
    /\ exists(cache, local_path(ds))
    /\ result.value = Some(local_path(ds))

\* The URL the record is to be fetched from: the mirror when one is set.
C4_Mirror(d) ==
    IF d.owid_data_url # None /\ d.owid_data_url # Some("")
    THEN d.owid_data_url[1] ELSE d.source_data_url

\* C4: when no file is at the local cache path, ensure_downloaded makes exactly
\* one download call, to the local cache path, from owid_data_url when that is
\* set and non-empty and from source_data_url otherwise; and it makes at most
\* one request, to that URL.
C4_OneDownload ==
    [][/\ (/\ CallOf("ensure_downloaded")
           /\ derivable(ds)
           /\ ~exists(cache, local_path(ds)))
          => /\ Len(result'.downloads) = 1
             /\ result'.downloads[1].url = C4_Mirror(ds)
             /\ result'.downloads[1].filename = local_path(ds)
       /\ result'.op = "ensure_downloaded"
          => /\ Len(result'.downloads) <= 1
             /\ \/ result'.gets = <<>>
                \/ result'.gets = <<C4_Mirror(result'.self)>>]_vars

\* C4 witness: ensure_downloaded has fetched the file of a record with a mirror
\* from the mirror.
C4_Witness ==
    /\ result.op = "ensure_downloaded"
    /\ result.status = "ok"
    /\ ds.owid_data_url = Some(OwidUrl)
    /\ result.gets = <<OwidUrl>>
    /\ cache[local_path(ds)] = Served(OwidUrl)

\* C5: upload called while no file is at the record's local cache path fails
\* with the precondition error, calls the object store not at all, and leaves
\* the record and the remote store unchanged.
C5_NoLocalFile ==
    [][(/\ CallOf("upload")
        /\ derivable(ds)
        /\ ~exists(cache, local_path(ds)))
       => /\ result'.status = "Exception"
          /\ result'.puts = <<>>
          /\ ds' = ds
          /\ remote' = remote]_vars

\* C5 witness: an upload has failed on its precondition.
C5_Witness ==
    /\ result.op = "upload"
    /\ result.status = "Exception"
    /\ ~exists(cache, local_path(ds))

\* The remote key namespace/version/short_name.file_extension
C6_Key(d) == <<d.namespace, version(d), d.short_name \o "." \o d.file_extension>>

\* After a successful upload: one call of the object store, with the local
\* cache file, that key and the caller's `public`; the store holds the file
\* under the key; owid_data_url is the URL the call returned.
C6_Published ==
    (result.op = "upload" /\ result.status = "ok")
    => /\ Len(result.puts) = 1
       /\ result.puts[1].key = C6_Key(ds)
       /\ result.puts[1].local = join(CACHE_DIR, C6_Key(ds))
       /\ result.puts[1].public = result.args[1]
       /\ exists(remote, C6_Key(ds))
       /\ remote[C6_Key(ds)].bytes = cache[join(CACHE_DIR, C6_Key(ds))]
       /\ remote[C6_Key(ds)].public = result.args[1]
       /\ result.puts[1].returned # None
       /\ ds.owid_data_url = result.puts[1].returned

C7_PrivateKeepsUrl ==
    [][(CallOf("upload") /\ result'.args = <<FALSE>>)
       => ds'.owid_data_url = ds.owid_data_url]_vars

\* C8: the version of a record is str(publication_year) whenever
\* publication_year is set, 0 included, else str(publication_date) when that is
\* set, and its derivation fails only when neither is set.
C8_Version ==
    version(ds) =
        IF ds.publication_year # None THEN str_int(ds.publication_year[1])
        ELSE IF ds.publication_date # None THEN str_pubdate(ds.publication_date[1])
        ELSE ValueError

\* The operations of C9, and what each must leave alone when it fails.
RecordOps == {"save", "delete", "ensure_downloaded", "add_to_cache", "upload",
              "download_and_create", "copy_and_create"}
Neither(d) == d.publication_year = None /\ d.publication_date = None
NothingDone ==
    /\ pc' = "idle"
    /\ UNCHANGED <<ds, cache, cacheDirs, index, indexDirs, remote, tmp>>
    /\ result'.downloads = <<>>
    /\ result'.gets = <<>>
    /\ result'.puts = <<>>

\* C9 as stated: on a record with neither publication_year nor
\* publication_date each of these operations fails with the version error and
\* changes nothing.
C9_AsStated ==
    [][(/\ pc = "idle" /\ ops' = ops + 1
        /\ result'.op \in RecordOps
        /\ Neither(result'.self))
       => (result'.status = "ValueError" /\ NothingDone)]_vars

\* C9 amended: the same, except that copy_and_create reads its source file
\* before it derives a path, and fails with the filesystem's error when that
\* file is missing; it changes nothing in either case.
C9_MissingVersion ==
    [][(/\ pc = "idle" /\ ops' = ops + 1
        /\ result'.op \in RecordOps
        /\ Neither(result'.self))
       => /\ result'.status =
               IF result'.op = "copy_and_create" /\ ~exists(LocalFiles, result'.args[1])
               THEN "FileNotFoundError" ELSE "ValueError"
          /\ NothingDone]_vars

\* C9 witness: copy_and_create of a readable file with metadata that has no
\* publication field has failed with the version error, after two operations
\* that filled the stores.
C9_Witness ==
    /\ result.op = "copy_and_create"
    /\ result.status = "ValueError"
    /\ result.args = <<HaveFile>>
    /\ Neither(result.self)
    /\ cache # <<>>
    /\ index # <<>>

\* The index path INDEX_DIR/namespace/version/short_name.json
C10_Path(d) == <<"index", d.namespace, version(d), d.short_name \o ".json">>

\* C10: save on a record whose version derives (and whose fields have a JSON
\* form), when it is not interrupted, succeeds, leaves the serialized record at
\* INDEX_DIR/namespace/version/short_name.json, and has created the
\* directories namespace/ and namespace/version/ above it.
C10_SaveCreatesDirs ==
    (/\ result.op = "save"
     /\ result.status # "KeyboardInterrupt"
     /\ derivable(ds) /\ serializable(ds))
    => /\ result.status = "ok"
       /\ exists(index, C10_Path(ds))
       /\ index[C10_Path(ds)] = Written(json_dumps(ds))
       /\ Ancestors(dirname(C10_Path(ds))) \subseteq indexDirs

\* C11: a record whose version derives, saved without interruption where its
\* index directory exists, is read back from the index path (json.load, then
\* from_dict) as a record equal to the original in every field.
C11_RoundTrip ==
    (/\ result.op = "save"
     /\ result.status # "KeyboardInterrupt"
     /\ derivable(result.self)
     /\ dirname(index_path(result.self)) \in indexDirs)
    => /\ exists(index, index_path(result.self))
       /\ parses(index[index_path(result.self)])
       /\ from_dict(json_load(index[index_path(result.self)])) = result.self

\* C12: delete on a record whose version derives ends without error; after
\* it no file is at the record's index path; when none was there the index
\* tree is as before; every other file of the index, the directories, the
\* local cache, the remote store, the temp files and every field of the
\* record are as before.
C12_Delete ==
    [][(CallOf("delete") /\ derivable(ds))
       => /\ result'.status = "ok"
          /\ ~exists(index', index_path(ds))
          /\ DOMAIN index' = DOMAIN index \ {index_path(ds)}
          /\ \A p \in DOMAIN index' : index'[p] = index[p]
          /\ ~exists(index, index_path(ds)) => index' = index
          /\ indexDirs' = indexDirs
          /\ cache' = cache /\ cacheDirs' = cacheDirs
          /\ remote' = remote
          /\ tmp' = tmp
          /\ ds' = ds]_vars

\* C12 witness: a third operation was a delete by a record that has a cached
\* file, a remote copy and a mirror URL, next to the documents of other
\* records in the index.
C12_Witness ==
    /\ result.op = "delete"
    /\ result.status = "ok"
    /\ exists(cache, local_path(ds))
    /\ exists(remote, dest_path(ds))
    /\ TruthyStr(ds.owid_data_url)
    /\ ~exists(index, index_path(ds))
    /\ DOMAIN InitIndex \subseteq DOMAIN index

\* Two records are distinct when they differ in a field that no operation
\* on a record rewrites (upload rewrites owid_data_url).
Distinct(a, b) == \E f \in Fields \ {"owid_data_url"} : a[f] # b[f]

\* The index path of d holds the document of a record distinct from d.
Occupied(d) ==
    /\ exists(index, index_path(d))
    /\ parses(index[index_path(d)])
    /\ Distinct(from_dict(json_load(index[index_path(d)])), d)

\* C13: a save by a record whose index path holds the document of a distinct
\* record (same namespace, version and short_name, another field different)
\* is rejected, and the document is left as it was.
C13_CollisionRejected ==
    [][(CallOf("save") /\ derivable(ds) /\ Occupied(ds))
       => /\ result'.status # "ok"
          /\ index' = index]_vars

\* The .json files under the index root, the pairs the last scan yielded and
\* the path its error names.
JsonFiles == {p \in DOMAIN index : endswith(p[Len(p)], ".json")}
Malformed == {p \in JsonFiles : ~parses(index[p])}
Yielded == result.value[1]
Ascending(pairs) ==
    \A i, j \in 1..Len(pairs) : i < j => path_lt(pairs[i][1], pairs[j][1])

\* C14: a scan of an index tree whose .json files all parse ends without
\* error, having yielded one pair for each .json file under the root and for
\* no other file, each pair holding the parsed document of its path, in
\* strictly ascending order of the path strings, whatever the order the walk
\* listed the files in.
C14_SortedScan ==
    (result.op = "iter_docs" /\ Malformed = {})
    => /\ result.status = "ok"
       /\ Len(Yielded) = Cardinality(JsonFiles)
       /\ {Yielded[i][1] : i \in 1..Len(Yielded)} = JsonFiles
       /\ \A i \in 1..Len(Yielded) : Yielded[i][2] = json_load(index[Yielded[i][1]])
       /\ Ascending(Yielded)

\* C14 witness: a scan yielded three documents in an order that is not the
\* order the walk had produced their paths in, and left out a file without
\* the suffix.
C14_Witness ==
    /\ result.op = "iter_docs"
    /\ result.status = "ok"
    /\ Len(Yielded) = 3
    /\ iter_json(result.args[1]) # [i \in 1..3 |-> Yielded[i][1]]
    /\ Readme \in DOMAIN index

\* C15 as stated: a scan of a tree with a malformed .json document ends with
\* RecordWithInvalidJSON naming a malformed path and has yielded no pair.
C15_AsStated ==
    (result.op = "iter_docs" /\ Malformed # {})
    => /\ result.status = "RecordWithInvalidJSON"
       /\ result.value[2] # None
       /\ result.value[2][1] \in Malformed
       /\ Yielded = <<>>

\* C15: a scan of a tree with a malformed .json document ends with
\* RecordWithInvalidJSON naming the malformed path that sorts first; before
\* that it has yielded, in ascending order, the pair of every .json file that
\* sorts before that path, and no pair for that path or a later one.
C15_StopsAtMalformed ==
    (result.op = "iter_docs" /\ Malformed # {})
    => /\ result.status = "RecordWithInvalidJSON"
       /\ result.value[2] # None
       /\ LET offending == result.value[2][1] IN
            /\ offending \in Malformed
            /\ \A p \in Malformed : p = offending \/ path_lt(offending, p)
            /\ {Yielded[i][1] : i \in 1..Len(Yielded)} =
                   {p \in JsonFiles : path_lt(p, offending)}
            /\ Len(Yielded) = Cardinality({p \in JsonFiles : path_lt(p, offending)})
       /\ \A i \in 1..Len(Yielded) : Yielded[i][2] = json_load(index[Yielded[i][1]])
       /\ Ascending(Yielded)

\* C15 witness: a scan ended with the error after it had yielded a pair.
C15_Witness ==
    /\ result.op = "iter_docs"
    /\ result.status = "RecordWithInvalidJSON"
    /\ Malformed # {}
    /\ Yielded # <<>>

\* The complete document save writes for d, if d has one.
NewDocument(d) == IF serializable(d) THEN {Written(json_dumps(d))} ELSE {}

\* C16: whatever way a save by a record whose version derives ends, the file
\* at the index path is afterwards the complete document of the record or
\* the file that was there before, and it is absent only if it was absent
\* before.
C16_AllOrNothing ==
    [][(CallOf("save") /\ derivable(ds))
       => /\ exists(index', index_path(ds))
             => \/ index'[index_path(ds)] \in NewDocument(ds)
                \/ /\ exists(index, index_path(ds))
                   /\ index'[index_path(ds)] = index[index_path(ds)]
          /\ ~exists(index', index_path(ds)) => ~exists(index, index_path(ds))]_vars

\* C17: after a call of files.download that created its temporary file and
\* then failed (checksum mismatch, bad response status, transport error), that
\* temporary file is no longer on disk.
C17_TempDiscarded ==
    (/\ Called
     /\ Finished
     /\ result.status \in {"ChecksumDoesNotMatch", "HTTPError", "ConnectionError"})
    => ~exists(tmp, TmpName(nextTmp))

\* C18: when ensure_downloaded on a record whose md5 is set has fetched the
\* whole body, then either the body's digest is the record's md5, the call
\* has succeeded and the file at the local path has that digest, or the call
\* has failed with the checksum error and the local path is as it was.
C18_VerifiedIntoCache ==
    (/\ result.op = "ensure_downloaded"
     /\ Called
     /\ Transferred
     /\ result.self.md5 # None)
    => IF checksum(Served(Call.url)) = result.self.md5[1]
       THEN /\ result.status = "ok"
            /\ exists(cache, Call.filename)
            /\ checksum(cache[Call.filename]) = result.self.md5[1]
       ELSE /\ result.status = "ChecksumDoesNotMatch"
            /\ SameAt(Call.filename, cache, pre)

\* C19: a record created with owid_data_url unset (null or empty) has a
\* non-empty owid_data_url only if an upload of it has returned since and a
\* file is at its local cache path.
C19_PublishedImpliesCached ==
    (~TruthyStr(life.born.owid_data_url) /\ TruthyStr(ds.owid_data_url))
    => /\ life.uploaded
       /\ exists(cache, local_path(ds))

\* C19 witness: a record created without a mirror URL has one, and another
\* operation on it has ended after the upload that set it.
C19_Witness ==
    /\ ~TruthyStr(life.born.owid_data_url)
    /\ TruthyStr(ds.owid_data_url)
    /\ result.op \in {"save", "delete", "ensure_downloaded", "add_to_cache"}
    /\ Finished

\* C20: every field of the record other than owid_data_url is as it was when
\* the record was created, so are the local path, the index path and the
\* remote key derived from it, and owid_data_url differs only after an upload
\* of the record has returned.
C20_IdentityKept ==
    /\ \A f \in Fields \ {"owid_data_url"} : ds[f] = life.born[f]
    /\ local_path(ds) = local_path(life.born)
    /\ index_path(ds) = index_path(life.born)
    /\ dest_path(ds) = dest_path(life.born)
    /\ ds.owid_data_url # life.born.owid_data_url => life.uploaded

\* C20 witness: three operations on the same record have ended, the last
\* one an upload that changed owid_data_url, with the record's file cached and
\* its document saved.
C20_Witness ==
    /\ ops = 3
    /\ Finished
    /\ result.op = "upload"
    /\ result.status = "ok"
    /\ ds.owid_data_url # life.born.owid_data_url
    /\ exists(index, index_path(ds))
    /\ \A f \in Fields \ {"owid_data_url"} : result.self[f] = life.born[f]

====
